---- MODULE Spec2Model ----
(***************************************************************************)
(* Worker-resource protocol of src/jsonl-store/types.ts.                   *)
(*                                                                         *)
(* Two halves joined by the native message transport:                      *)
(*   workerMain (lines 59-115)  the worker-side runtime                    *)
(*   useWorker  (lines 135-202) the host-side resource                     *)
(* plus useMessageChannel (204-214) and settled (216-227).                 *)
(*                                                                         *)
(* Every task of the program (host resource, send callers, worker main,    *)
(* control loop, task body, per-request handlers) advances at its          *)
(* suspension points; one action is one such step.  The task body and the  *)
(* per-request handler function are supplied by the user, so what they do  *)
(* (subscribe, return, throw) is chosen nondeterministically.              *)
(***************************************************************************)
EXTENDS Integers, Sequences, FiniteSets, TLC

\* ---------------------------------------------------------------- bounds
MaxSends == 2        \* send calls issued through one handle
NumValues == 2       \* distinct payloads a send call can carry
MaxErrors == 1       \* error events raised by the worker transport
MaxControls == 3     \* controls a foreign host posts to workerMain

Calls == 1..MaxSends
Values == {<<"value", n>> : n \in 1..NumValues}

\* ---------------------------------------------------------------- values
\* Result<T> of effection: Ok(value) / Err(error); Pending is a
\* withResolvers() cell nobody has resolved yet.
Pending == [st |-> "pending", v |-> <<"none", 0>>]
Ok(v) == [st |-> "ok", v |-> v]
Err(e) == [st |-> "err", v |-> e]

\* new Error(`worker terminated`)
Terminated == <<"worker terminated", 0>>
\* what the user's per-request function returns / throws for a payload
Fn(value) == <<"reply", value[2]>>
FnError(value) == <<"error", value[2]>>
\* what the user's task body returns / throws
BodyValue == <<"returned", 0>>
BodyError == <<"thrown", 0>>
\* options.data forwarded by init
InitData == <<"data", 0>>
\* the data of an init control some other host posts
OtherData == <<"data", 1>>

NoHandler == [st |-> "none", value |-> <<"none", 0>>, response |-> 0]

VARIABLES
    \* transport
    ctrlQ,          \* host -> worker control messages, in flight
    mainChan,       \* worker -> host lifecycle messages, in flight
    respChan,       \* per call: Results in flight on its MessageChannel
    \* worker side (workerMain)
    workerPc,       \* "boot" | "scoped" | "done" | "dead"
    workerOutcome,  \* outcome = withResolvers<Result<TReturn>>()
    bodyState,      \* "none" | "started" | "iterating" | "returned" | "threw" | "halted"
    bodyLaunches,   \* how many times the body was spawned
    sentQ,          \* queue of the each(sent) subscription
    handlers,       \* per request: the spawned handler task
    \* host side (useWorker)
    hostPc,         \* "handshake" | "provided" | "closing" | "done" | "exited" | "failed" | "aborted"
    hostOutcome,    \* outcome = withResolvers<TReturn>()
    listener,       \* onclose is registered on the worker
    observer,       \* "none" | "armed" | "fired": the once(worker, "error") task
    exitReason,     \* why the resource scope ended
    settledResult,  \* what settled(outcome.operation) returned
    sendSt,         \* per call: "idle" | "waiting" | "returned" | "threw" | "cancelled"
    sendVal,        \* per call: the value passed to send
    sendRes,        \* per call: event.data read from port1
    portOpen,       \* per call: the MessageChannel ports are open
    \* bookkeeping of what was posted
    posted,         \* per port: number of Results the worker posted on it
    closePosts,     \* terminal close messages the worker posted
    latePost,       \* the worker posted something after its terminal close
    hostClosePosts, \* close control messages the host posted
    forced,         \* a close control resolved the still pending outcome
    attempts,       \* calls of outcome.resolve in the worker
    errors,         \* transport error events raised so far
    hostLog,        \* types of the control messages the host posted, in order
    openPosts,      \* open messages workerMain posted
    bodyData        \* the data the task body was last started with

transportVars == <<ctrlQ, mainChan, respChan>>
workerVars == <<workerPc, workerOutcome, bodyState, bodyLaunches, sentQ, handlers>>
hostVars == <<hostPc, hostOutcome, listener, observer, exitReason, settledResult>>
sendVars == <<sendSt, sendVal, sendRes, portOpen>>
histVars == <<posted, closePosts, latePost, hostClosePosts, forced, attempts, errors>>
logVars == <<hostLog, openPosts, bodyData>>
vars == <<transportVars, workerVars, hostVars, sendVars, histVars, logVars>>

\* ------------------------------------------------------------- messages
InitMsg(data) == [type |-> "init", value |-> data, response |-> 0]
SendMsg(value, port) == [type |-> "send", value |-> value, response |-> port]
CloseMsg == [type |-> "close", value |-> <<"none", 0>>, response |-> 0]

OpenEvent == [type |-> "open", result |-> Pending]
CloseEvent(result) == [type |-> "close", result |-> result]
OtherEvent == [type |-> "other", result |-> Pending]

\* -------------------------------------------------------------- helpers
\* withResolvers(): the first resolve/reject settles the cell, later ones
\* are no-ops.
ResolveLast(cell, result) == result
Resolve(cell, result) == IF cell = Pending THEN result ELSE cell

\* control.type === "close": outcome.resolve(Err(new Error(`worker terminated`)))
OnCloseWaitForBody(outcome) == outcome
OnClose(outcome) == Resolve(outcome, Err(Terminated))

\* the port a handler answers on: the response port of its own message
ResponsePortShared(item) == 1
ResponsePort(item) == item.response

\* try { response.postMessage(Ok(yield* fn(value))) }
\* catch (error) { response.postMessage(Err(error)) }
HandlerPostsBoth(value, throws) ==
    IF throws THEN <<Ok(Fn(value)), Err(FnError(value))>> ELSE <<Ok(Fn(value))>>
HandlerPosts(value, throws) ==
    IF throws THEN <<Err(FnError(value))>> ELSE <<Ok(Fn(value))>>

\* the catch clause of the handler absorbs the error: the body's outcome
\* is not touched by a per-request failure
Escapes(outcome, error) == Resolve(outcome, Err(error))
Caught(outcome, error) == outcome

\* leaving a scope halts every task spawned in it: a running handler is
\* halted inside `yield* fn(value)` and never reaches postMessage
KeepTasks(hs) == hs
HaltTasks(hs) ==
    [c \in DOMAIN hs |->
        IF hs[c].st = "running" THEN [hs[c] EXCEPT !.st = "halted"] ELSE hs[c]]

HaltBody(b) == IF b \in {"started", "iterating"} THEN "halted" ELSE b

\* settled(operation): Ok() when the operation returns, Err(error) when it
\* throws; never re-throws
Settled(outcome) ==
    IF outcome.st = "ok" THEN Ok(<<"void", 0>>) ELSE Err(outcome.v)

\* `yield* settled(outcome.operation)` resumes once the outcome is settled
DoesNotWait(outcome) == TRUE
TeardownReady(outcome) == outcome # Pending

\* resolving the outcome resumes workerMain in the same turn: the scoped
\* block ends and halts the control loop, which is suspended in
\* controls.next(), before another message event is dispatched
LoopKeepsRunning(outcome) == TRUE
LoopAlive(outcome) == outcome = Pending

\* send is a plain method of the provided object: nothing in it looks at
\* the state of the resource, so whoever holds the handle can call it from
\* the moment it is provided on, also once teardown has begun
HandleUsable(pc) == pc \in {"provided", "closing", "done", "exited"}

\* the forEach loop spawns the handler and goes straight on to
\* each.next(): it never waits for a handler it started
LoopAwaitsHandler(hs) == \A k \in DOMAIN hs : hs[k].st # "running"
LoopFree(hs) == TRUE

\* self.postMessage({ type: "open" }): what workerMain posts at startup
IsOpen(event) == event.type = "open"
StartupPostsNothing == <<>>
StartupPosts == <<OpenEvent>>

\* assert(first.value.data.type === "open", ...)
HandshakeAny(event) == TRUE
HandshakeOk(event) == event.type = "open"

\* onclose: a close event settles the host outcome from its result
OnCloseEventAlwaysResolves(outcome, event) ==
    IF event.type = "close" THEN Resolve(outcome, Ok(event.result.v)) ELSE outcome
OnCloseEvent(outcome, event) ==
    IF event.type = "close" THEN Resolve(outcome, event.result) ELSE outcome

\* ----------------------------------------------------------------- Init
Init ==
    /\ ctrlQ = <<>>
    /\ mainChan = <<>>
    /\ respChan = [c \in Calls |-> <<>>]
    /\ workerPc = "boot"
    /\ workerOutcome = Pending
    /\ bodyState = "none"
    /\ bodyLaunches = 0
    /\ sentQ = <<>>
    /\ handlers = [c \in Calls |-> NoHandler]
    /\ hostPc = "handshake"
    /\ hostOutcome = Pending
    /\ listener = TRUE
    /\ observer = "none"
    /\ exitReason = "none"
    /\ settledResult = Pending
    /\ sendSt = [c \in Calls |-> "idle"]
    /\ sendVal = [c \in Calls |-> <<"none", 0>>]
    /\ sendRes = [c \in Calls |-> Pending]
    /\ portOpen = [c \in Calls |-> FALSE]
    /\ posted = [c \in Calls |-> 0]
    /\ closePosts = 0
    /\ latePost = FALSE
    /\ hostClosePosts = 0
    /\ forced = FALSE
    /\ attempts = 0
    /\ errors = 0
    /\ hostLog = <<>>
    /\ openPosts = 0
    /\ bodyData = <<"none", 0>>

\* ========================================================== worker side
\* code of the worker script that runs before workerMain posts a message of
\* its own on the main channel (the host then sees a first message that is
\* not `open`)
WorkerScriptPost ==
    /\ workerPc = "boot"
    /\ hostPc = "handshake"
    /\ mainChan = <<>>
    /\ mainChan' = Append(mainChan, OtherEvent)
    /\ latePost' = (latePost \/ closePosts > 0)
    /\ UNCHANGED <<ctrlQ, respChan, workerVars, hostVars, sendVars,
                   posted, closePosts, hostClosePosts, forced, attempts, errors,
                   logVars>>

\* workerMain up to the scoped block: subscribe to self "message", create
\* the outcome, post `open`, spawn the control loop and wait for the outcome
WorkerStart ==
    /\ workerPc = "boot"
    /\ workerPc' = "scoped"
    /\ mainChan' = mainChan \o StartupPosts
    /\ openPosts' = openPosts + Len(SelectSeq(StartupPosts, IsOpen))
    /\ latePost' = (latePost \/ closePosts > 0)
    /\ UNCHANGED <<ctrlQ, respChan, workerOutcome, bodyState, bodyLaunches,
                   sentQ, handlers, hostVars, sendVars,
                   posted, closePosts, hostClosePosts, forced, attempts, errors,
                   hostLog, bodyData>>

\* one turn of the control loop: `next = yield* controls.next()` and the
\* dispatch on control.type
WorkerControl ==
    /\ workerPc = "scoped"
    /\ LoopAlive(workerOutcome)
    /\ ctrlQ # <<>>
    /\ LET control == Head(ctrlQ) IN
        /\ ctrlQ' = Tail(ctrlQ)
        /\ IF control.type = "init"
             THEN \* spawn the task body with control.data
                  /\ bodyState' = "started"
                  /\ bodyLaunches' = bodyLaunches + 1
                  /\ bodyData' = control.value
                  /\ UNCHANGED <<sentQ, workerOutcome, forced, attempts>>
           ELSE IF control.type = "send"
             THEN \* sent.send({ value, response }): a signal only reaches
                  \* the subscriptions that exist at that moment
                  /\ sentQ' = IF bodyState = "iterating"
                                THEN Append(sentQ, [value |-> control.value,
                                                    response |-> control.response])
                                ELSE sentQ
                  /\ UNCHANGED <<bodyState, bodyLaunches, workerOutcome, forced,
                                 attempts, bodyData>>
           ELSE \* control.type = "close"
                  /\ workerOutcome' = OnClose(workerOutcome)
                  /\ forced' = (forced \/ workerOutcome = Pending)
                  /\ attempts' = attempts + 1
                  /\ UNCHANGED <<bodyState, bodyLaunches, sentQ, bodyData>>
    /\ UNCHANGED <<mainChan, respChan, workerPc, handlers, hostVars, sendVars,
                   posted, closePosts, latePost, hostClosePosts, errors,
                   hostLog, openPosts>>

\* the body calls messages.forEach(fn): `yield* each(sent)` subscribes
BodySubscribe ==
    /\ workerPc = "scoped"
    /\ bodyState = "started"
    /\ bodyState' = "iterating"
    /\ UNCHANGED <<transportVars, workerPc, workerOutcome, bodyLaunches, sentQ,
                   handlers, hostVars, sendVars, histVars, logVars>>

\* one turn of the forEach loop: take { value, response } from the
\* subscription, spawn its handler, `yield* each.next()`
BodyDispatch ==
    /\ workerPc = "scoped"
    /\ bodyState = "iterating"
    /\ sentQ # <<>>
    /\ LoopFree(handlers)
    /\ LET item == Head(sentQ) IN
        handlers' = [handlers EXCEPT ![item.response] =
                        [st |-> "running", value |-> item.value,
                         response |-> ResponsePort(item)]]
    /\ sentQ' = Tail(sentQ)
    /\ UNCHANGED <<transportVars, workerPc, workerOutcome, bodyState, bodyLaunches,
                   hostVars, sendVars, histVars, logVars>>

\* a handler finishes: fn(value) returned (throws = FALSE) or threw
\* (throws = TRUE); the Result goes out on the handler's response port
HandlerFinish(k, throws) ==
    /\ workerPc # "dead"
    /\ handlers[k].st = "running"
    /\ LET h == handlers[k]
           out == HandlerPosts(h.value, throws) IN
        /\ respChan' = [respChan EXCEPT ![h.response] = @ \o out]
        /\ posted' = [posted EXCEPT ![h.response] = @ + Len(out)]
        /\ workerOutcome' = IF throws THEN Caught(workerOutcome, FnError(h.value))
                                      ELSE workerOutcome
    /\ handlers' = [handlers EXCEPT ![k].st = IF throws THEN "threw" ELSE "returned"]
    /\ latePost' = (latePost \/ closePosts > 0)
    /\ UNCHANGED <<ctrlQ, mainChan, workerPc, bodyState, bodyLaunches, sentQ,
                   hostVars, sendVars, closePosts, hostClosePosts, forced,
                   attempts, errors, logVars>>

\* the task body ends by itself: `outcome.resolve(Ok(value))` after it
\* returned, `outcome.resolve(Err(error))` after it threw; the tasks spawned
\* in the body's scope end with it
BodyFinish(throws) ==
    /\ workerPc = "scoped"
    /\ bodyState \in {"started", "iterating"}
    /\ bodyState' = IF throws THEN "threw" ELSE "returned"
    /\ workerOutcome' = Resolve(workerOutcome,
                                IF throws THEN Err(BodyError) ELSE Ok(BodyValue))
    /\ attempts' = attempts + 1
    /\ handlers' = HaltTasks(handlers)
    /\ sentQ' = <<>>
    /\ UNCHANGED <<transportVars, workerPc, bodyLaunches, hostVars, sendVars,
                   posted, closePosts, latePost, hostClosePosts, forced, errors,
                   logVars>>

\* `yield* outcome.operation` resumes: the scoped block returns the result,
\* which halts the control loop, the body and the handlers, and then
\* self.postMessage({ type: "close", result })
WorkerFinish ==
    /\ workerPc = "scoped"
    /\ workerOutcome # Pending
    /\ workerPc' = "done"
    /\ bodyState' = HaltBody(bodyState)
    /\ handlers' = HaltTasks(handlers)
    /\ sentQ' = <<>>
    /\ mainChan' = Append(mainChan, CloseEvent(workerOutcome))
    /\ closePosts' = closePosts + 1
    /\ latePost' = (latePost \/ closePosts > 0)
    /\ UNCHANGED <<ctrlQ, respChan, workerOutcome, bodyLaunches, hostVars, sendVars,
                   posted, hostClosePosts, forced, attempts, errors, logVars>>

\* ============================================================ host side
\* the finally block of useWorker up to its suspension point, entered when
\* the scope holding the handle ends for `reason`: the callers of send in
\* that scope are halted (which releases their channels) and
\* worker.postMessage({ type: "close" }) is run
BeginTeardown(reason) ==
    /\ hostPc' = "closing"
    /\ exitReason' = reason
    /\ ctrlQ' = Append(ctrlQ, CloseMsg)
    /\ hostClosePosts' = hostClosePosts + 1
    /\ hostLog' = Append(hostLog, "close")
    /\ sendSt' = [c \in Calls |-> IF sendSt[c] = "waiting" THEN "cancelled" ELSE sendSt[c]]
    /\ portOpen' = [c \in Calls |-> FALSE]

\* a message event of the worker reaches the host: onclose sees every
\* event; the first one also resumes `first = yield* subscription.next()`,
\* after which the host asserts it is `open`, spawns the error observer,
\* posts `init` and provides the handle
HostReceive ==
    /\ mainChan # <<>>
    /\ LET event == Head(mainChan) IN
        /\ mainChan' = Tail(mainChan)
        /\ hostOutcome' = IF listener THEN OnCloseEvent(hostOutcome, event)
                                      ELSE hostOutcome
        /\ IF hostPc = "handshake"
             THEN IF HandshakeOk(event)
                    THEN /\ hostPc' = "provided"
                         /\ observer' = "armed"
                         /\ ctrlQ' = Append(ctrlQ, InitMsg(InitData))
                         /\ hostLog' = Append(hostLog, "init")
                    ELSE /\ hostPc' = "failed"
                         /\ UNCHANGED <<observer, ctrlQ, hostLog>>
             ELSE UNCHANGED <<hostPc, observer, ctrlQ, hostLog>>
    /\ UNCHANGED <<respChan, workerVars, listener, exitReason, settledResult,
                   sendVars, histVars, openPosts, bodyData>>

\* the scope waiting in `yield* useWorker(...)` is cancelled before the
\* first message arrived: the resource is halted outside its try block
HostAbort ==
    /\ hostPc = "handshake"
    /\ hostPc' = "aborted"
    /\ exitReason' = "cancel"
    /\ UNCHANGED <<transportVars, workerVars, hostOutcome, listener, observer,
                   settledResult, sendVars, histVars, logVars>>

\* send(value): acquire a MessageChannel, post the send control with
\* port2, start port1 and wait for its first message.  The payload is
\* opaque to the protocol (it is cloned and handed to fn, never inspected),
\* so runs are taken up to renaming of payloads: the n-th call draws its
\* payload from the first n values.
SendCall(c, value) ==
    /\ HandleUsable(hostPc)
    /\ sendSt[c] = "idle"
    /\ \A d \in Calls : d < c => sendSt[d] # "idle"
    /\ value[2] <= c
    /\ sendSt' = [sendSt EXCEPT ![c] = "waiting"]
    /\ sendVal' = [sendVal EXCEPT ![c] = value]
    /\ portOpen' = [portOpen EXCEPT ![c] = TRUE]
    /\ ctrlQ' = Append(ctrlQ, SendMsg(value, c))
    /\ hostLog' = Append(hostLog, "send")
    /\ UNCHANGED <<mainChan, respChan, workerVars, hostVars, sendRes, histVars,
                   openPosts, bodyData>>

\* `event = yield* once(channel.port1, "message")` resumes: the call
\* returns result.value or throws result.error
SendReceive(c) ==
    /\ sendSt[c] = "waiting"
    /\ portOpen[c]
    /\ respChan[c] # <<>>
    /\ LET result == Head(respChan[c]) IN
        /\ sendRes' = [sendRes EXCEPT ![c] = result]
        /\ sendSt' = [sendSt EXCEPT ![c] = IF result.st = "ok" THEN "returned" ELSE "threw"]
    /\ respChan' = [respChan EXCEPT ![c] = Tail(@)]
    /\ UNCHANGED <<ctrlQ, mainChan, workerVars, hostVars, sendVal, portOpen, histVars,
                   logVars>>

\* the task that called send is halted while it waits: its scope ends and
\* useMessageChannel closes both ports
SendCancel(c) ==
    /\ sendSt[c] = "waiting"
    /\ sendSt' = [sendSt EXCEPT ![c] = "cancelled"]
    /\ portOpen' = [portOpen EXCEPT ![c] = FALSE]
    /\ UNCHANGED <<transportVars, workerVars, hostVars, sendVal, sendRes, histVars,
                   logVars>>

\* the task that called send ends some time after the call has ended:
\* only then is the MessageChannel resource it acquired released and both
\* ports closed
CallerEnd(c) ==
    /\ sendSt[c] \in {"returned", "threw"}
    /\ portOpen[c]
    /\ portOpen' = [portOpen EXCEPT ![c] = FALSE]
    /\ UNCHANGED <<transportVars, workerVars, hostVars, sendSt, sendVal, sendRes,
                   histVars, logVars>>

\* the scope that holds the handle ends: it completed ("normal"), failed
\* ("failure") or was cancelled ("cancel"); the resource is halted at
\* provide and runs its finally block
ScopeExit(reason) ==
    /\ hostPc = "provided"
    /\ BeginTeardown(reason)
    /\ UNCHANGED <<mainChan, respChan, workerVars, hostOutcome, listener, observer,
                   settledResult, sendVal, sendRes,
                   posted, closePosts, latePost, forced, attempts, errors,
                   openPosts, bodyData>>

\* the worker raises an uncaught error: an error event fires on the host's
\* Worker object.  The runtime either keeps the worker running or
\* terminates it (terminal).  The observer task, if it is waiting in
\* once(worker, "error"), throws event.error, which fails the resource
\* scope and so enters the finally block.
TransportError(terminal) ==
    /\ errors < MaxErrors
    /\ workerPc \in {"boot", "scoped"}
    /\ errors' = errors + 1
    /\ IF terminal
         THEN /\ workerPc' = "dead"
              /\ bodyState' = HaltBody(bodyState)
              /\ handlers' = HaltTasks(handlers)
              /\ sentQ' = <<>>
         ELSE UNCHANGED <<workerPc, bodyState, handlers, sentQ>>
    /\ IF observer = "armed" /\ hostPc = "provided"
         THEN /\ observer' = "fired"
              /\ BeginTeardown("error")
         ELSE UNCHANGED <<observer, hostPc, exitReason, ctrlQ, hostClosePosts,
                          sendSt, portOpen, hostLog>>
    /\ UNCHANGED <<mainChan, respChan, workerOutcome, bodyLaunches, hostOutcome,
                   listener, settledResult, sendVal, sendRes,
                   posted, closePosts, latePost, forced, attempts, openPosts,
                   bodyData>>

\* `yield* settled(outcome.operation)` resumes with the captured result and
\* worker.removeEventListener("message", onclose) runs
TeardownFinish ==
    /\ hostPc = "closing"
    /\ TeardownReady(hostOutcome)
    /\ settledResult' = Settled(hostOutcome)
    /\ listener' = FALSE
    /\ hostPc' = "done"
    /\ UNCHANGED <<transportVars, workerVars, hostOutcome, observer, exitReason,
                   sendVars, histVars, logVars>>

\* the finally block is over: the exit of the scope completes
ScopeExitComplete ==
    /\ hostPc = "done"
    /\ hostPc' = "exited"
    /\ UNCHANGED <<transportVars, workerVars, hostOutcome, listener, observer,
                   exitReason, settledResult, sendVars, histVars, logVars>>

\* ================================================================= Next
Next ==
    \/ WorkerScriptPost
    \/ WorkerStart
    \/ WorkerControl
    \/ BodySubscribe
    \/ BodyDispatch
    \/ \E k \in Calls, throws \in BOOLEAN : HandlerFinish(k, throws)
    \/ \E throws \in BOOLEAN : BodyFinish(throws)
    \/ WorkerFinish
    \/ HostReceive
    \/ HostAbort
    \/ \E c \in Calls, value \in Values : SendCall(c, value)
    \/ \E c \in Calls : SendReceive(c)
    \/ \E c \in Calls : SendCancel(c)
    \/ \E c \in Calls : CallerEnd(c)
    \/ \E reason \in {"normal", "failure", "cancel"} : ScopeExit(reason)
    \/ \E terminal \in BOOLEAN : TransportError(terminal)
    \/ TeardownFinish
    \/ ScopeExitComplete

Spec == Init /\ [][Next]_vars

\* The scheduler of each side runs every task that can take a step, and the
\* transport delivers every message posted to a live receiver.  What the
\* environment and the user's code decide (issuing or cancelling a send,
\* ending the scope, a transport error, the body subscribing, returning or
\* throwing) is not forced to happen.
Fairness ==
    /\ WF_vars(WorkerStart)
    /\ WF_vars(WorkerControl)
    /\ WF_vars(BodyDispatch)
    /\ WF_vars(\E k \in Calls, throws \in BOOLEAN : HandlerFinish(k, throws))
    /\ WF_vars(WorkerFinish)
    /\ WF_vars(HostReceive)
    /\ WF_vars(\E c \in Calls : SendReceive(c))
    /\ WF_vars(TeardownFinish)
    /\ WF_vars(ScopeExitComplete)

FairSpec == Spec /\ Fairness

\* ===================================================== workerMain alone
\* workerMain is exported on its own: whatever script created the worker
\* can post control messages to it.  A foreign host posts init and close
\* controls in any order and number ...
RawControl(control) ==
    /\ Len(hostLog) < MaxControls
    /\ ctrlQ' = Append(ctrlQ, control)
    /\ hostLog' = Append(hostLog, control.type)
    /\ UNCHANGED <<mainChan, respChan, workerVars, hostVars, sendVars, histVars,
                   openPosts, bodyData>>

\* ... and send controls, each with a response port of its own, within the
\* same budget of MaxControls controls
RawSend(c, value) ==
    /\ Len(hostLog) < MaxControls
    /\ sendSt[c] = "idle"
    /\ \A d \in Calls : d < c => sendSt[d] # "idle"
    /\ value[2] <= c
    /\ sendSt' = [sendSt EXCEPT ![c] = "waiting"]
    /\ sendVal' = [sendVal EXCEPT ![c] = value]
    /\ portOpen' = [portOpen EXCEPT ![c] = TRUE]
    /\ ctrlQ' = Append(ctrlQ, SendMsg(value, c))
    /\ hostLog' = Append(hostLog, "send")
    /\ UNCHANGED <<mainChan, respChan, workerVars, hostVars, sendRes, histVars,
                   openPosts, bodyData>>

WorkerNext ==
    \/ WorkerStart
    \/ \E control \in {InitMsg(InitData), InitMsg(OtherData), CloseMsg} : RawControl(control)
    \/ \E c \in Calls, value \in Values : RawSend(c, value)
    \/ WorkerControl
    \/ BodySubscribe
    \/ BodyDispatch
    \/ \E k \in Calls, throws \in BOOLEAN : HandlerFinish(k, throws)
    \/ \E throws \in BOOLEAN : BodyFinish(throws)
    \/ WorkerFinish

WorkerSpec == Init /\ [][WorkerNext]_vars

WorkerFairness ==
    /\ WF_vars(WorkerStart)
    /\ WF_vars(WorkerControl)
    /\ WF_vars(BodyDispatch)
    /\ WF_vars(\E k \in Calls, throws \in BOOLEAN : HandlerFinish(k, throws))
    /\ WF_vars(WorkerFinish)

FairWorkerSpec == WorkerSpec /\ WorkerFairness

\* =============================================================== claims

\* C1: a send call that resolved holds the Result its own handler produced
\* from its own value: Ok(fn(value)) when it returned, Err(error of value)
\* when it threw; never the response of another send call.
ResponseCorrelation ==
    \A c \in Calls :
        /\ sendSt[c] = "returned" =>
              /\ sendRes[c] = Ok(Fn(sendVal[c]))
              /\ handlers[c].st = "returned"
              /\ handlers[c].value = sendVal[c]
        /\ sendSt[c] = "threw" =>
              /\ sendRes[c] = Err(FnError(sendVal[c]))
              /\ handlers[c].st = "threw"
              /\ handlers[c].value = sendVal[c]

\* two calls with different values were outstanding together and the later
\* one got its own answer while the earlier one is still waiting
ResponseCorrelationWitness ==
    /\ sendSt[1] = "waiting"
    /\ sendSt[2] = "returned"
    /\ sendVal[1] # sendVal[2]
    /\ handlers[1].st = "running"

\* C2: every send call that is waiting for its response eventually stops
\* waiting (it returns, throws, or at the very least is cancelled).  Stated
\* for the runs the claim is surely about: no transport error occurs and the
\* worker's outcome stays unresolved, so the worker is alive and serving.
SendLiveness ==
    \A c \in Calls :
        (sendSt[c] = "waiting" /\ errors = 0 /\ workerOutcome = Pending)
            ~> (sendSt[c] # "waiting" \/ errors > 0 \/ workerOutcome # Pending)

\* C3: teardown runs once and in order: one close control is posted when the
\* scope ends, the listener is removed only after the host outcome settled,
\* and the scope exit completes only after the listener is removed.
TeardownOrder ==
    /\ hostClosePosts <= 1
    /\ hostPc = "provided" => (hostClosePosts = 0 /\ listener)
    /\ hostPc \in {"closing", "done", "exited"} => hostClosePosts = 1
    /\ hostPc = "closing" => listener
    /\ ~listener => (hostClosePosts = 1 /\ hostOutcome # Pending)
    /\ hostPc \in {"done", "exited"} => (~listener /\ settledResult # Pending)

\* the scope was cancelled while a send call was outstanding and its exit
\* has completed
TeardownOrderWitness ==
    /\ hostPc = "exited"
    /\ exitReason = "cancel"
    /\ \E c \in Calls : sendSt[c] = "cancelled"

\* C4: teardown eventually completes: the wait for the terminal outcome
\* ends and the lifecycle listener is removed.  Stated for the exit path
\* the claim names last, the fatal transport error of the worker.
TeardownTerminates ==
    (hostPc = "closing" /\ exitReason = "error")
        ~> (hostPc \in {"done", "exited"} /\ ~listener)

\* C5: the worker posts its terminal close at most once and posts nothing
\* after it, on the main channel or on a response port; the terminal close
\* is the last lifecycle message in flight and no handler survives it.
SingleTerminalLast ==
    /\ closePosts <= 1
    /\ ~latePost
    /\ \A i \in 1..Len(mainChan) : mainChan[i].type = "close" => i = Len(mainChan)
    /\ workerPc = "done" =>
          (closePosts = 1 /\ \A k \in Calls : handlers[k].st # "running")

\* the terminal close was posted while a handler was still in flight, and
\* that handler has posted nothing
SingleTerminalLastWitness ==
    /\ workerPc = "done"
    /\ closePosts = 1
    /\ \E k \in Calls : handlers[k].st = "halted" /\ posted[k] = 0

\* C6: the worker outcome is settled by the first of body return, body throw
\* and close control; once settled, neither it nor the host's outcome ever
\* changes, whatever resolution is attempted later.
FirstWriterWinsStep ==
    /\ workerOutcome # Pending => workerOutcome' = workerOutcome
    /\ hostOutcome # Pending => hostOutcome' = hostOutcome
    /\ (workerOutcome = Pending /\ workerOutcome' # Pending) =>
          workerOutcome' \in {Ok(BodyValue), Err(BodyError), Err(Terminated)}

FirstWriterWins == [][FirstWriterWinsStep]_vars

\* a close control resolved the outcome first and the body, halted by the
\* end of the scoped block, threw afterwards: two resolutions were
\* attempted and the first one stands
FirstWriterWinsWitness ==
    /\ attempts >= 2
    /\ forced
    /\ bodyState = "threw"
    /\ workerOutcome = Err(Terminated)

\* C7: when a close control finds the outcome still unresolved (the body has
\* not completed), the outcome is the "worker terminated" failure, the
\* terminal close carries it and the host outcome fails with it.
ForcedTermination ==
    forced =>
        /\ workerOutcome = Err(Terminated)
        /\ \A i \in 1..Len(mainChan) :
              mainChan[i].type = "close" => mainChan[i].result = Err(Terminated)
        /\ hostOutcome \in {Pending, Err(Terminated)}
        /\ workerPc = "done" => closePosts = 1

\* the scope ended normally while the body was running: the worker finished
\* without the body having completed and the host outcome failed
ForcedTerminationWitness ==
    /\ forced
    /\ exitReason = "normal"
    /\ workerPc = "done"
    /\ bodyState = "halted"
    /\ hostOutcome = Err(Terminated)

\* C8: a handler that throws changes nothing but its own channel: the
\* terminal outcome and the body are untouched, the other handlers and
\* channels are untouched, and every handler that returned has answered Ok
\* on its own channel.
IsolationStep ==
    \A k \in Calls :
        (handlers[k].st = "running" /\ handlers'[k].st = "threw") =>
            /\ workerOutcome' = workerOutcome
            /\ bodyState' = bodyState
            /\ \A j \in Calls \ {handlers[k].response} : respChan'[j] = respChan[j]
            /\ \A j \in Calls \ {k} : handlers'[j] = handlers[j]
            /\ respChan'[handlers[k].response] =
                  Append(respChan[handlers[k].response], Err(FnError(handlers[k].value)))

IsolationState ==
    /\ \A v \in Values : workerOutcome # Err(FnError(v))
    /\ \A j \in Calls :
          handlers[j].st = "returned" =>
              /\ \A i \in 1..Len(respChan[j]) : respChan[j][i] = Ok(Fn(sendVal[j]))
              /\ sendSt[j] # "threw"

FailureIsolation == [][IsolationStep]_vars /\ []IsolationState

\* one handler threw, the other call still got its Ok, the body is still
\* iterating and the terminal outcome is unresolved
FailureIsolationWitness ==
    /\ handlers[1].st = "threw"
    /\ sendSt[1] = "threw"
    /\ sendSt[2] = "returned"
    /\ sendRes[2] = Ok(Fn(sendVal[2]))
    /\ bodyState = "iterating"
    /\ workerOutcome = Pending

\* C9: every handler the worker dispatched and that is no longer running has
\* posted exactly one Result on its response port.
EveryHandlerPosts ==
    \A k \in Calls :
        handlers[k].st \in {"returned", "threw", "halted"} =>
            posted[handlers[k].response] = 1

HostOrdering ==
    /\ Cardinality({i \in 1..Len(hostLog) : hostLog[i] = "init"}) <= 1
    /\ hostLog # <<>> => hostLog[1] = "init"
    /\ hostPc \in {"handshake", "failed", "aborted"} => hostLog = <<>>
    /\ \A i, j \in 1..Len(hostLog) :
          i < j => ~(hostLog[i] = "close" /\ hostLog[j] = "send")

\* C12: workerMain posts open exactly once, at startup, before any response
\* and before its terminal close.
OpenFirst ==
    /\ openPosts <= 1
    /\ workerPc \in {"scoped", "done"} => openPosts = 1
    /\ (closePosts > 0 \/ \E c \in Calls : posted[c] > 0) => openPosts = 1
    /\ \A i, j \in 1..Len(mainChan) :
          i < j => ~(mainChan[i].type = "close" /\ mainChan[j].type = "open")

\* open was posted, then a response, then the terminal close
OpenFirstWitness ==
    /\ openPosts = 1
    /\ closePosts = 1
    /\ \E c \in Calls : posted[c] = 1

\* C13: an error event raised while the resource is alive (from the creation
\* of the worker until teardown) makes the resource scope fail with it.
TransportErrorFatalStep ==
    (errors' > errors /\ hostPc \in {"handshake", "provided"}) =>
        (hostPc' = "closing" /\ exitReason' = "error")

TransportErrorFatal == [][TransportErrorFatalStep]_vars

\* C14: when the first message the host receives is not open, acquisition
\* fails and stays failed: init is never posted, the error observer is not
\* spawned, the handle is not provided and no send is issued.
HandshakeFailureStep ==
    /\ (/\ hostPc = "handshake"
        /\ mainChan # <<>>
        /\ mainChan' = Tail(mainChan)
        /\ Head(mainChan).type # "open") =>
            (hostPc' = "failed" /\ hostLog' = hostLog /\ ctrlQ' = ctrlQ)
    /\ hostPc = "failed" => hostPc' = "failed"

HandshakeFailureState ==
    hostPc = "failed" =>
        /\ hostLog = <<>>
        /\ ctrlQ = <<>>
        /\ observer = "none"
        /\ \A c \in Calls : sendSt[c] = "idle"

HandshakeFailureAborts == [][HandshakeFailureStep]_vars /\ []HandshakeFailureState

\* the host gave up on a first message that was not open while workerMain
\* went on to post its open and wait for init
HandshakeFailureWitness ==
    /\ hostPc = "failed"
    /\ workerPc = "scoped"
    /\ openPosts = 1
    /\ mainChan = <<>>

\* C15: when the body returned v before any close arrived the outcome is
\* Ok(v), when it threw e it is Err(e); the terminal close carries the
\* outcome and the host outcome, once settled, equals it.
OutcomePropagation ==
    /\ (bodyState = "returned" /\ ~forced) => workerOutcome = Ok(BodyValue)
    /\ (bodyState = "threw" /\ ~forced) => workerOutcome = Err(BodyError)
    /\ \A i \in 1..Len(mainChan) :
          mainChan[i].type = "close" => mainChan[i].result = workerOutcome
    /\ hostOutcome # Pending => hostOutcome = workerOutcome

\* the body threw, the terminal close was delivered and the host outcome
\* failed with the body's error
OutcomePropagationWitness ==
    /\ bodyState = "threw"
    /\ ~forced
    /\ closePosts = 1
    /\ hostOutcome = Err(BodyError)

\* C16: while the body iterates, a request waiting in the subscription can
\* always be dispatched, whatever the handlers started earlier are doing.
ConcurrentDispatch ==
    (workerPc = "scoped" /\ bodyState = "iterating" /\ sentQ # <<>>) =>
        ENABLED BodyDispatch

\* the second request was dispatched and answered while the handler of the
\* first one is still running
ConcurrentDispatchWitness ==
    /\ handlers[1].st = "running"
    /\ posted[1] = 0
    /\ handlers[2].st \in {"returned", "threw"}
    /\ posted[2] = 1

\* C17: once a send call has ended (returned, threw or was cancelled) both
\* ports of its MessageChannel are closed.
ChannelReleased ==
    \A c \in Calls :
        sendSt[c] \in {"returned", "threw", "cancelled"} => ~portOpen[c]

\* C18: the resource never finishes without having posted close to the
\* worker and removed the lifecycle listener.
WorkerNeverAbandoned ==
    hostPc \in {"failed", "aborted", "exited"} =>
        (hostClosePosts = 1 /\ ~listener)

\* C19: the body is launched only by an init control, at most once in the
\* worker's lifetime and with that control's data: a send or close never
\* launches it and a further init does not launch a second body.
SingleBodyLaunchStep ==
    /\ bodyLaunches' # bodyLaunches =>
          /\ ctrlQ # <<>>
          /\ Head(ctrlQ).type = "init"
          /\ bodyLaunches = 0
          /\ bodyLaunches' = 1
          /\ bodyData' = Head(ctrlQ).value
    /\ bodyLaunches > 0 => bodyData' = bodyData

SingleBodyLaunch == [][SingleBodyLaunchStep]_vars

\* C20: when close arrives while the worker still waits for init, the
\* outcome is the "worker terminated" failure, the body is never started,
\* and the worker finishes by posting its one terminal close with that Err.
CloseBeforeInitStep ==
    (workerOutcome # Pending /\ bodyLaunches = 0) =>
        (bodyLaunches' = 0 /\ workerOutcome' = workerOutcome)

CloseBeforeInitState ==
    (forced /\ bodyLaunches = 0) =>
        /\ workerOutcome = Err(Terminated)
        /\ bodyState = "none"
        /\ closePosts <= 1
        /\ workerPc = "done" => closePosts = 1
        /\ \A i \in 1..Len(mainChan) :
              mainChan[i].type = "close" => mainChan[i].result = Err(Terminated)

CloseBeforeInit ==
    /\ [][CloseBeforeInitStep]_vars
    /\ []CloseBeforeInitState
    /\ (forced /\ bodyLaunches = 0) ~> (workerPc = "done" /\ closePosts = 1)

\* close came first and an init posted after it is still in the queue: the
\* worker has finished without ever starting the body
CloseBeforeInitWitness ==
    /\ forced
    /\ bodyLaunches = 0
    /\ workerPc = "done"
    /\ closePosts = 1
    /\ \E i \in 1..Len(ctrlQ) : ctrlQ[i].type = "init"

====
